---- MODULE Spec2Model ----
(***************************************************************************)
(* Model of airports_parser.py: the AerowayNodesHandler that accumulates   *)
(* airport nodes and areas from an OSM entity stream, and the __main__     *)
(* script that resolves the shape flags, feeds the stream and exports.     *)
(*                                                                         *)
(* Numbers.  Latitudes and longitudes are integers counted in units of     *)
(* BUFFER_DISTANCE (0.00005 degree), so the buffer of line 30 is 1 and     *)
(* every coordinate of the model is a grid point.  Floating point rounding *)
(* is not modelled.                                                        *)
(*                                                                         *)
(* Geometry.  A shapely coordinate is a pair <<x, y>>; osmium's WKB        *)
(* factory writes x = longitude, y = latitude.  A Polygon is its exterior  *)
(* ring, a closed sequence of coordinates; a MultiPolygon is a sequence of *)
(* Polygons.  envelope, convex_hull, minimum_rotated_rectangle, buffer and *)
(* contains follow shapely 1.x: the minimum rotated rectangle is the       *)
(* smallest envelope of the convex hull taken in the frame of each hull    *)
(* edge (the first smallest one in hull order), contains is true of        *)
(* interior points only.  All arithmetic is exact integer arithmetic in    *)
(* the frame of an edge (dx, dy), where lengths carry the factor           *)
(* sqrt(dx^2 + dy^2).                                                      *)
(***************************************************************************)
EXTENDS Integers, Sequences, FiniteSets, TLC

VARIABLES
    pc,                          \* position of the __main__ script
    argv,                        \* the flags given on the command line
    args,                        \* the parsed flags, as __main__ rewrites them
    h_envelope,                  \* h.envelope
    h_minimum_rotated_rectangle, \* h.minimum_rotated_rectangle
    coordinates,                 \* h.coordinates: sequence of <<lat, lon>>
    geoms,                       \* h.geoms: sequence of MultiPolygons
    created,                     \* the output files that exist
    nodes_txt,                   \* lines of <id>_nodes.txt
    areas_txt,                   \* lines of <id>_areas.txt
    centroids_txt,               \* lines of <id>_centroids.txt
    written_node_ids,            \* history: the node ids export wrote to the nodes file
    geom_errors,                 \* history: geometry constructions that raised
    tags,                        \* the tag mapping handed to is_aeroway_airport
    verdict,                     \* <<>> or <<result of is_aeroway_airport(tags)>>
    probe                        \* <<>> or <<b1, b2, ids at b1, ids at b2>>

vars == <<pc, argv, args, h_envelope, h_minimum_rotated_rectangle, coordinates,
          geoms, created, nodes_txt, areas_txt, centroids_txt, written_node_ids,
          geom_errors, tags, verdict, probe>>

-----------------------------------------------------------------------------
(* Bounds of the model *)

MaxPoints == 2      \* airport nodes accumulated in one run
MaxAreas == 2       \* airport areas accumulated in one run
MaxBuffer == 2      \* largest buffer distance probed, in units of BUFFER_DISTANCE

BUFFER_DISTANCE == 1

-----------------------------------------------------------------------------
(* Small helpers *)

Range(s) == {s[i] : i \in 1..Len(s)}

Min(S) == CHOOSE m \in S : \A k \in S : m <= k
Max(S) == CHOOSE m \in S : \A k \in S : m >= k

RECURSIVE SeqsUpTo(_, _)
SeqsUpTo(S, n) ==
    IF n = 0 THEN {<<>>}
    ELSE LET shorter == SeqsUpTo(S, n - 1)
         IN  shorter \cup {Append(s, e) : s \in {t \in shorter : Len(t) = n - 1}, e \in S}

RECURSIVE Concat(_)
Concat(ss) == IF ss = <<>> THEN "" ELSE Head(ss) \o Concat(Tail(ss))

RECURSIVE Flatten(_)
Flatten(ss) == IF ss = <<>> THEN <<>> ELSE Head(ss) \o Flatten(Tail(ss))

\* The element of a one-element set.  In {F(x) : x \in {v}} the value v is
\* computed once, however often F uses x: a local variable.
TheOnly(S) == CHOOSE y \in S : TRUE

\* "{},{}".format(a, b)
format2(a, b) == ToString(a) \o "," \o ToString(b)

-----------------------------------------------------------------------------
(* shapely geometry on grid coordinates *)

Sq(a) == a * a

\* z component of (q - p) x (r - p): > 0 when r lies left of the ray p -> q
Cross(p, q, r) == (q[1] - p[1]) * (r[2] - p[2]) - (q[2] - p[2]) * (r[1] - p[1])

Dist2(p, q) == Sq(q[1] - p[1]) + Sq(q[2] - p[2])

\* geom.envelope: the axis-aligned bounding rectangle, from (minx, miny)
\* counter-clockwise
EnvelopeOf(P) ==
    LET minx == Min({p[1] : p \in P})
        maxx == Max({p[1] : p \in P})
        miny == Min({p[2] : p \in P})
        maxy == Max({p[2] : p \in P})
    IN  << <<minx, miny>>, <<maxx, miny>>, <<maxx, maxy>>, <<minx, maxy>>, <<minx, miny>> >>

envelope(geom) == EnvelopeOf(Range(geom))

\* The convex hull of a point set that is not collinear, as GEOS returns it:
\* a closed ring that starts at the lowest point and runs clockwise.
Lowest(P) ==
    CHOOSE p \in P : \A q \in P : p[2] < q[2] \/ (p[2] = q[2] /\ p[1] <= q[1])

HullNext(P, p) ==
    LET ahead == {q \in P \ {p} : \A r \in P : Cross(p, q, r) <= 0}
    IN  CHOOSE q \in ahead : \A k \in ahead : Dist2(p, k) <= Dist2(p, q)

RECURSIVE HullFrom(_, _, _)
HullFrom(P, start, acc) ==
    LET nxt == HullNext(P, acc[Len(acc)])
    IN  IF nxt = start THEN Append(acc, start)
        ELSE HullFrom(P, start, Append(acc, nxt))

convex_hull(P) == HullFrom(P, Lowest(P), <<Lowest(P)>>)

\* The frame of an edge vector e = (dx, dy): s runs along the edge, t along
\* its left normal (-dy, dx); both carry the factor |e|.
FrameS(e, p) == e[1] * p[1] + e[2] * p[2]
FrameT(e, p) == e[1] * p[2] - e[2] * p[1]

\* The envelope of P in the frame of e
Box(e, P) ==
    [e |-> e,
     n |-> Sq(e[1]) + Sq(e[2]),
     smin |-> Min({FrameS(e, p) : p \in P}), smax |-> Max({FrameS(e, p) : p \in P}),
     tmin |-> Min({FrameT(e, p) : p \in P}), tmax |-> Max({FrameT(e, p) : p \in P})]

\* area(b1) < area(b2), the true area of a box being (ds * dt) / n
BoxAreaLess(b1, b2) ==
    (b1.smax - b1.smin) * (b1.tmax - b1.tmin) * b2.n
        < (b2.smax - b2.smin) * (b2.tmax - b2.tmin) * b1.n

\* The frame point (s, t) of box b back in x, y
FromFrame(b, s, t) ==
    << (s * b.e[1] - t * b.e[2]) \div b.n, (s * b.e[2] + t * b.e[1]) \div b.n >>

BoxRing(b) ==
    << FromFrame(b, b.smin, b.tmin), FromFrame(b, b.smax, b.tmin),
       FromFrame(b, b.smax, b.tmax), FromFrame(b, b.smin, b.tmax),
       FromFrame(b, b.smin, b.tmin) >>

\* shapely 1.x minimum_rotated_rectangle of the points of a geometry: for
\* each edge of the hull, the envelope of the hull in the frame of that edge;
\* min() keeps the first one of smallest area; it is transformed back.
HullBoxes(P) ==
    LET hull == convex_hull(P)
    IN  [i \in 1..(Len(hull) - 1) |->
            Box(<<hull[i + 1][1] - hull[i][1], hull[i + 1][2] - hull[i][2]>>, P)]

FirstSmallest(boxes) ==
    CHOOSE i \in DOMAIN boxes :
        /\ \A j \in DOMAIN boxes : ~BoxAreaLess(boxes[j], boxes[i])
        /\ \A j \in DOMAIN boxes : j < i => BoxAreaLess(boxes[i], boxes[j])

MinRotatedRectangleOf(points) ==
    TheOnly({BoxRing(b) : b \in {boxes[FirstSmallest(boxes)] :
                                    boxes \in {HullBoxes(P) : P \in {points}}}})

\* Polygon.minimum_rotated_rectangle
minimum_rotated_rectangle(geom) == MinRotatedRectangleOf(Range(geom))

\* MultiPolygon.minimum_rotated_rectangle: of all the polygons together
multi_minimum_rotated_rectangle(m) ==
    MinRotatedRectangleOf(UNION {Range(m[i]) : i \in 1..Len(m)})

\* rectangle.buffer(d): the region within distance d of the rectangle (d > 0),
\* the rectangle itself (d = 0) or the rectangle eroded by -d (d < 0)
buffer(rectangle, d) == [rectangle |-> rectangle, d |-> d]

\* How far the value v lies outside the interval [lo, hi] (0 inside it)
Excess(v, lo, hi) == IF v < lo THEN lo - v ELSE IF v > hi THEN v - hi ELSE 0

\* The squared distance, times n, of p to the rectangle of box b
BoxDist2(b, p) ==
    Sq(Excess(FrameS(b.e, p), b.smin, b.smax)) + Sq(Excess(FrameT(b.e, p), b.tmin, b.tmax))

\* The depth of v inside the interval [lo, hi] (negative outside it)
Depth(v, lo, hi) == Min({v - lo, hi - v})

RectBox(rectangle) ==
    Box(<<rectangle[2][1] - rectangle[1][1], rectangle[2][2] - rectangle[1][2]>>,
        Range(rectangle))

\* A variant, covers instead of contains: the boundary counts as inside
contains_Covers(buffered, p) ==
    LET b == RectBox(buffered.rectangle)
        d == buffered.d
        ds == Depth(FrameS(b.e, p), b.smin, b.smax)
        dt == Depth(FrameT(b.e, p), b.tmin, b.tmax)
    IN  IF d > 0 THEN BoxDist2(b, p) <= Sq(d) * b.n
        ELSE ds >= 0 /\ dt >= 0 /\ Sq(ds) >= Sq(d) * b.n /\ Sq(dt) >= Sq(d) * b.n

\* buffered.contains(Point(x, y)): the point lies in the interior of the
\* buffered rectangle; a point of its boundary is not contained.
contains(buffered, p) ==
    LET b == RectBox(buffered.rectangle)
        d == buffered.d
        ds == Depth(FrameS(b.e, p), b.smin, b.smax)
        dt == Depth(FrameT(b.e, p), b.tmin, b.tmax)
    IN  IF d > 0 THEN BoxDist2(b, p) < Sq(d) * b.n
        ELSE ds > 0 /\ dt > 0 /\ Sq(ds) > Sq(d) * b.n /\ Sq(dt) > Sq(d) * b.n

-----------------------------------------------------------------------------
(* The entity stream: what osmium hands to the node and area callbacks *)

Loc(lat, lon) == [lat |-> lat, lon |-> lon]

\* Tag mappings of the entities of a run
AerodromeTags == [k \in {"aeroway"} |-> "aerodrome"]
IataTags == [k \in {"iata", "name"} |-> "yes"]
RunwayTags == [k \in {"aeroway"} |-> "runway"]
NoTags == [k \in {} |-> "yes"]
EntityTags == {AerodromeTags, IataTags, RunwayTags, NoTags}

\* Outer rings of areas, as sequences of node locations
RingB == << Loc(0, 4), Loc(2, 6), Loc(4, 4), Loc(2, 2), Loc(0, 4) >>   \* rotated square
RingD1 == << Loc(3, 0), Loc(3, 4), Loc(4, 1), Loc(3, 0) >>             \* obtuse triangle
RingD2 == << Loc(3, 5), Loc(3, 6), Loc(4, 6), Loc(4, 5), Loc(3, 5) >>  \* and a square
RingBad == << Loc(0, 0), Loc(0, 1), Loc(0, 2) >>                       \* 3 collinear points

ValidRings == { <<RingB>>, <<RingD1, RingD2>> }
AreaRings == ValidRings \cup { <<RingBad>> }

\* Node locations: inside RingB and within the buffer of the rectangle of
\* RingD1 and RingD2; on the boundary of the buffer of that rectangle; far
\* from both areas
NodeLocations == {Loc(3, 4), Loc(5, 3), Loc(3, 9)}

NodeEntities == [tags : EntityTags, location : NodeLocations]

AreaEntities == [tags : EntityTags, rings : AreaRings]

-----------------------------------------------------------------------------
(* AerowayNodesHandler *)

\* A variant that accepts every aeroway value
is_aeroway_airport_AnyAeroway(t) ==
    IF "aerodrome" \in DOMAIN t THEN TRUE
    ELSE IF "iata" \in DOMAIN t THEN TRUE
    ELSE IF "aeroway" \in DOMAIN t THEN TRUE
    ELSE FALSE

\* is_aeroway_airport, lines 95-103
is_aeroway_airport(t) ==
    IF "aerodrome" \in DOMAIN t THEN TRUE
    ELSE IF "iata" \in DOMAIN t THEN TRUE
    ELSE IF "aeroway" \in DOMAIN t /\ t["aeroway"] = "aerodrome" THEN TRUE
    ELSE FALSE

\* osmium.geom.WKBFactory.create_multipolygon: raises on ring data it cannot
\* assemble (a ring that is not closed or has fewer than 3 distinct
\* vertices); otherwise the WKB of the multipolygon, x = lon and y = lat.
Malformed(ring) == Len(ring) < 4 \/ ring[1] # ring[Len(ring)]

\* The WKB of one ring: the number of its points, then x, y of each
RECURSIVE RingWkb(_, _)
RingWkb(ring, j) ==
    IF j > Len(ring) THEN <<>>
    ELSE <<ring[j].lon, ring[j].lat>> \o RingWkb(ring, j + 1)

create_multipolygon(a) ==
    IF a.rings = <<>> \/ \E i \in 1..Len(a.rings) : Malformed(a.rings[i])
    THEN [raised |-> TRUE, wkb |-> <<>>]
    ELSE [raised |-> FALSE,
          wkb |-> <<Len(a.rings)>> \o
                  Flatten([i \in 1..Len(a.rings) |->
                              <<Len(a.rings[i])>> \o RingWkb(a.rings[i], 1)])]

\* shapely.wkb.loads: the MultiPolygon the WKB encodes.  ReadPolygons reads
\* count polygons from position pos on.
RECURSIVE ReadPolygons(_, _, _)
ReadPolygons(wkb, pos, count) ==
    IF count = 0 THEN <<>>
    ELSE LET npoints == wkb[pos]
             ring == [j \in 1..npoints |-> <<wkb[pos + 2 * j - 1], wkb[pos + 2 * j]>>]
         IN  <<ring>> \o ReadPolygons(wkb, pos + 1 + 2 * npoints, count - 1)

wkb_loads(wkb) == ReadPolygons(wkb, 2, wkb[1])

\* The MultiPolygons a run can accumulate
MultiPolygons == {wkb_loads(create_multipolygon([tags |-> AerodromeTags, rings |-> r]).wkb) :
                    r \in ValidRings}

\* A variant that builds Point(n[0], n[1]): latitude taken for x
PointOf_Swapped(n) == <<n[1], n[2]>>

\* Point(n[1], n[0]) for n = (lat, lon): x = lon, y = lat
PointOf(n) == <<n[2], n[1]>>

\* The node ids one pass of the inner loop appends for one buffered rectangle,
\* from node id n_id on
RECURSIVE InnerLoop(_, _)
InnerLoop(buffered_rectangle, n_id) ==
    IF n_id >= Len(coordinates) THEN <<>>
    ELSE (IF contains(buffered_rectangle, PointOf(coordinates[n_id + 1]))
          THEN <<n_id>> ELSE <<>>)
         \o InnerLoop(buffered_rectangle, n_id + 1)

\* A variant of get_nodes_in_area with the sign of the buffer distance lost
get_nodes_in_area_NegatedBuffer(buffer_const) ==
    Flatten([k \in 1..Len(geoms) |->
        TheOnly({InnerLoop(buffered_rectangle, 0) :
                    buffered_rectangle \in
                        {buffer(multi_minimum_rotated_rectangle(geoms[k]), 0 - buffer_const)}})])

\* get_nodes_in_area, lines 43-50: for each area in turn, the ids of the nodes
\* its buffered rectangle contains (an id once for every such area).  The
\* buffered rectangle of an area is bound once, as on line 45.
get_nodes_in_area(buffer_const) ==
    Flatten([k \in 1..Len(geoms) |->
        TheOnly({InnerLoop(buffered_rectangle, 0) :
                    buffered_rectangle \in
                        {buffer(multi_minimum_rotated_rectangle(geoms[k]), buffer_const)}})])

\* export, lines 57-58: the node ids written to the nodes file, from node_id on
RECURSIVE FreeNodeIdsFrom(_, _)
FreeNodeIdsFrom(intersected_node_ids, node_id) ==
    IF node_id >= Len(coordinates) THEN <<>>
    ELSE (IF node_id \notin Range(intersected_node_ids) THEN <<node_id>> ELSE <<>>)
         \o FreeNodeIdsFrom(intersected_node_ids, node_id + 1)

\* A variant whose loop starts at node id 1
FreeNodeIds_SkipFirst(intersected_node_ids) == FreeNodeIdsFrom(intersected_node_ids, 1)

FreeNodeIds(intersected_node_ids) == FreeNodeIdsFrom(intersected_node_ids, 0)

\* export, lines 59-61: the line of one node
node_line(node) == format2(node[1], node[2]) \o "\n"

\* export, lines 65-69: the geometry exported for one polygon
exported_geom(geom, env, mrr) ==
    IF env THEN envelope(geom)
    ELSE IF mrr THEN minimum_rotated_rectangle(geom)
    ELSE geom

\* A variant that writes x before y: "{},{};".format(coord[0], coord[1])
format_vertex_XFirst(coord) == format2(coord[1], coord[2]) \o ";"

\* export, line 72: "{},{};".format(coord[1], coord[0]), y before x
format_vertex(coord) == format2(coord[2], coord[1]) \o ";"

\* export, lines 70-75: the line of one exported geometry
area_line(ring) ==
    TheOnly({Concat([j \in 1..Len(r) |-> format_vertex(r[j])]) : r \in {ring}}) \o "\n"

\* export, lines 62-75: the lines of the areas file
areas_lines(gs, env, mrr) ==
    Flatten([k \in 1..Len(gs) |->
        [j \in 1..Len(gs[k]) |-> area_line(exported_geom(gs[k][j], env, mrr))]])

\* export_centroids, lines 81-91: the line of one polygon.  The centroid and
\* the haversine radius are real numbers the model does not evaluate; the
\* line stands for them as a term over the polygon.
centroid_line(geom) == "centroid[" \o area_line(geom) \o "];\n"

centroids_lines(gs) ==
    Flatten([k \in 1..Len(gs) |-> [j \in 1..Len(gs[k]) |-> centroid_line(gs[k][j])]])

\* A variant that inserts at the front of the list
parse_node_Prepend(n) ==
    IF is_aeroway_airport(n.tags)
    THEN <<<<n.location.lat, n.location.lon>>>> \o coordinates
    ELSE coordinates

\* parse_node, lines 105-108: the coordinates list after the call
parse_node(n) ==
    IF is_aeroway_airport(n.tags)
    THEN Append(coordinates, <<n.location.lat, n.location.lon>>)
    ELSE coordinates

\* parse_area: whether create_multipolygon raises, and the geoms list after
\* the call when it does not
parse_area_raises(a) == create_multipolygon(a).raised

parse_area(a) == Append(geoms, wkb_loads(create_multipolygon(a).wkb))

-----------------------------------------------------------------------------
(* __main__ *)

Flags == [envelope : BOOLEAN, minimum_rotated_rectangle : BOOLEAN, centroids : BOOLEAN]

Files == {"nodes", "areas", "centroids"}

\* A variant that leaves both shape flags set
resolve_flags_KeepBoth(a) == a

\* lines 176-177: the parsed flags after the conflict between the shape flags
\* is resolved
resolve_flags(a) ==
    IF a.envelope /\ a.minimum_rotated_rectangle
    THEN [a EXCEPT !.envelope = FALSE]
    ELSE a

\* A variant that exports the centroids whatever the flag
wants_centroids_Always(a) == TRUE

\* line 191: if args.centroids
wants_centroids(a) == a.centroids

Init ==
    /\ pc = "start"
    /\ argv \in Flags
    /\ args = argv
    /\ h_envelope = FALSE
    /\ h_minimum_rotated_rectangle = FALSE
    /\ coordinates = <<>>
    /\ geoms = <<>>
    /\ created = {}
    /\ nodes_txt = <<>>
    /\ areas_txt = <<>>
    /\ centroids_txt = <<>>
    /\ written_node_ids = <<>>
    /\ geom_errors = 0
    /\ tags = NoTags
    /\ verdict = <<>>
    /\ probe = <<>>

\* lines 176-180: resolve the flags, hand them to the handler; then
\* apply_file starts reading
SetFlags ==
    /\ pc = "start"
    /\ args' = resolve_flags(args)
    /\ h_envelope' = args'.envelope
    /\ h_minimum_rotated_rectangle' = args'.minimum_rotated_rectangle
    /\ pc' = "ingest"
    /\ UNCHANGED <<argv, coordinates, geoms, created, nodes_txt, areas_txt,
                   centroids_txt, written_node_ids, geom_errors, tags, verdict,
                   probe>>

\* the node callback, lines 115-117 and 105-108
node(n) ==
    /\ pc = "ingest"
    /\ is_aeroway_airport(n.tags) => Len(coordinates) < MaxPoints
    /\ coordinates' = IF is_aeroway_airport(n.tags) THEN parse_node(n) ELSE coordinates
    /\ UNCHANGED <<pc, argv, args, h_envelope, h_minimum_rotated_rectangle,
                   geoms, created, nodes_txt, areas_txt, centroids_txt,
                   written_node_ids, geom_errors, tags, verdict, probe>>

\* the area callback, lines 120-122 and 110-113.  Nothing catches what
\* create_multipolygon raises: it leaves the callback, apply_file and the
\* script.
area(a) ==
    /\ pc = "ingest"
    /\ is_aeroway_airport(a.tags) => Len(geoms) < MaxAreas
    /\ IF ~is_aeroway_airport(a.tags)
       THEN UNCHANGED <<pc, geoms, geom_errors>>
       ELSE IF parse_area_raises(a)
       THEN /\ pc' = "aborted"
            /\ geom_errors' = geom_errors + 1
            /\ UNCHANGED geoms
       ELSE /\ geoms' = parse_area(a)
            /\ UNCHANGED <<pc, geom_errors>>
    /\ UNCHANGED <<argv, args, h_envelope, h_minimum_rotated_rectangle,
                   coordinates, created, nodes_txt, areas_txt, centroids_txt,
                   written_node_ids, tags, verdict, probe>>

\* lines 182-183: apply_file returns once the stream is exhausted
EndOfStream ==
    /\ pc = "ingest"
    /\ pc' = "export"
    /\ UNCHANGED <<argv, args, h_envelope, h_minimum_rotated_rectangle,
                   coordinates, geoms, created, nodes_txt, areas_txt,
                   centroids_txt, written_node_ids, geom_errors, tags, verdict,
                   probe>>

\* line 189 and lines 52-75: h.export(output_id)
export ==
    /\ pc = "export"
    /\ \E intersected_node_ids \in {get_nodes_in_area(BUFFER_DISTANCE)} :
         \E free \in {FreeNodeIds(intersected_node_ids)} :
            /\ nodes_txt' = [i \in 1..Len(free) |-> node_line(coordinates[free[i] + 1])]
            /\ written_node_ids' = free
    /\ areas_txt' = areas_lines(geoms, h_envelope, h_minimum_rotated_rectangle)
    /\ created' = created \cup {"nodes", "areas"}
    /\ pc' = "exported"
    /\ UNCHANGED <<argv, args, h_envelope, h_minimum_rotated_rectangle,
                   coordinates, geoms, centroids_txt, geom_errors, tags,
                   verdict, probe>>

\* lines 191-192 and 77-92: the end of the script, h.export_centroids(output_id)
\* when the flag asks for it
export_centroids ==
    /\ pc = "exported"
    /\ IF wants_centroids(args)
       THEN /\ centroids_txt' = centroids_lines(geoms)
            /\ created' = created \cup {"centroids"}
       ELSE UNCHANGED <<centroids_txt, created>>
    /\ pc' = "done"
    /\ UNCHANGED <<argv, args, h_envelope, h_minimum_rotated_rectangle,
                   coordinates, geoms, nodes_txt, areas_txt, written_node_ids,
                   geom_errors, tags, verdict, probe>>

Next ==
    \/ SetFlags
    \/ \E n \in NodeEntities : node(n)
    \/ \E a \in AreaEntities : area(a)
    \/ EndOfStream
    \/ export
    \/ export_centroids

Spec == Init /\ [][Next]_vars

-----------------------------------------------------------------------------
(* is_aeroway_airport on its own: every tag mapping over a few keys *)

TagKeys == {"aerodrome", "iata", "aeroway", "name"}
TagValues == {"aerodrome", "runway", "yes"}
TagMappings == UNION {[K -> TagValues] : K \in SUBSET TagKeys}

InitTags ==
    /\ pc = "ingest"
    /\ tags \in TagMappings
    /\ verdict = <<>>
    /\ argv = [envelope |-> FALSE, minimum_rotated_rectangle |-> FALSE, centroids |-> FALSE]
    /\ args = argv
    /\ h_envelope = FALSE
    /\ h_minimum_rotated_rectangle = FALSE
    /\ coordinates = <<>>
    /\ geoms = <<>>
    /\ created = {}
    /\ nodes_txt = <<>>
    /\ areas_txt = <<>>
    /\ centroids_txt = <<>>
    /\ written_node_ids = <<>>
    /\ geom_errors = 0
    /\ probe = <<>>

\* lines 116 and 121: a callback asks whether the entity is an airport
Classify ==
    /\ pc = "ingest"
    /\ verdict = <<>>
    /\ verdict' = <<is_aeroway_airport(tags)>>
    /\ UNCHANGED <<pc, argv, args, h_envelope, h_minimum_rotated_rectangle,
                   coordinates, geoms, created, nodes_txt, areas_txt, centroids_txt,
                   written_node_ids, geom_errors, tags, probe>>

NextTags == Classify

SpecTags == InitTags /\ [][NextTags]_vars

-----------------------------------------------------------------------------
(* get_nodes_in_area on its own: any accumulated state, any two distances *)

Buffers == (0 - 1)..MaxBuffer

AccumulatedPoints == {<<l.lat, l.lon>> : l \in NodeLocations}

InitBuffer ==
    /\ pc = "export"
    /\ coordinates \in SeqsUpTo(AccumulatedPoints, MaxPoints)
    /\ geoms \in SeqsUpTo(MultiPolygons, MaxAreas)
    /\ probe = <<>>
    /\ argv = [envelope |-> FALSE, minimum_rotated_rectangle |-> FALSE, centroids |-> FALSE]
    /\ args = argv
    /\ h_envelope = FALSE
    /\ h_minimum_rotated_rectangle = FALSE
    /\ created = {}
    /\ nodes_txt = <<>>
    /\ areas_txt = <<>>
    /\ centroids_txt = <<>>
    /\ written_node_ids = <<>>
    /\ geom_errors = 0
    /\ tags = NoTags
    /\ verdict = <<>>

\* get_nodes_in_area called with two buffer distances on the same state
ProbeBuffers(b1, b2) ==
    /\ pc = "export"
    /\ probe = <<>>
    /\ b1 <= b2
    /\ probe' = <<b1, b2, get_nodes_in_area(b1), get_nodes_in_area(b2)>>
    /\ UNCHANGED <<pc, argv, args, h_envelope, h_minimum_rotated_rectangle,
                   coordinates, geoms, created, nodes_txt, areas_txt, centroids_txt,
                   written_node_ids, geom_errors, tags, verdict>>

NextBuffer == \E b1 \in Buffers, b2 \in Buffers : ProbeBuffers(b1, b2)

SpecBuffer == InitBuffer /\ [][NextBuffer]_vars

-----------------------------------------------------------------------------
(* Vocabulary of the properties *)

Exported == pc \in {"exported", "done"}

Ingesting == pc \in {"start", "ingest"}

NodeIds == 0..(Len(coordinates) - 1)

LatOfNode(i) == coordinates[i + 1][1]
LonOfNode(i) == coordinates[i + 1][2]

\* A ring vertex is <<x, y>> = <<longitude, latitude>>
LonOf(v) == v[1]
LatOf(v) == v[2]

IsPrefix(s, t) == Len(s) <= Len(t) /\ \A i \in 1..Len(s) : s[i] = t[i]

\* The minimum rotated rectangle of area k (1..Len(geoms)), as a box
AreaBox(k) == RectBox(multi_minimum_rotated_rectangle(geoms[k]))

\* n times the squared distance of node i to the rectangle of box b
NodeDist2(b, i) == BoxDist2(b, <<LonOfNode(i), LatOfNode(i)>>)

\* Node i lies strictly inside / on the boundary of the rectangle of box b
\* buffered by BUFFER_DISTANCE
InsideBuffered(b, i) == NodeDist2(b, i) < Sq(BUFFER_DISTANCE) * b.n
OnBufferedBoundary(b, i) == NodeDist2(b, i) = Sq(BUFFER_DISTANCE) * b.n

AreaBoxes == [k \in 1..Len(geoms) |-> AreaBox(k)]

\* The nodes file expected of the area boxes bs: a line for each node inside
\* no buffered rectangle, in insertion order
RECURSIVE FreeLinesFrom(_, _)
FreeLinesFrom(bs, i) ==
    IF i >= Len(coordinates) THEN <<>>
    ELSE (IF \E k \in DOMAIN bs : InsideBuffered(bs[k], i) THEN <<>>
          ELSE <<ToString(LatOfNode(i)) \o "," \o ToString(LonOfNode(i)) \o "\n">>)
         \o FreeLinesFrom(bs, i + 1)

\* All polygons of all accumulated areas, in order
AllPolygons == Flatten(geoms)

\* The ring the run exports for a polygon
NormalizedRing(geom) == exported_geom(geom, h_envelope, h_minimum_rotated_rectangle)

VertexText(v, latFirst) ==
    IF latFirst
    THEN ToString(LatOf(v)) \o "," \o ToString(LonOf(v)) \o ";"
    ELSE ToString(LonOf(v)) \o "," \o ToString(LatOf(v)) \o ";"

RingText(ring, latFirst) ==
    TheOnly({Concat([j \in 1..Len(r) |-> VertexText(r[j], latFirst)]) : r \in {ring}})

-----------------------------------------------------------------------------
(* Properties *)

\* C1: is_aeroway_airport(T) is true exactly when T has the key aerodrome, or
\* the key iata, or maps aeroway to "aerodrome".
C1_IsAirportIff ==
    verdict # <<>> =>
        (verdict[1] <=> \/ "aerodrome" \in DOMAIN tags
                        \/ "iata" \in DOMAIN tags
                        \/ ("aeroway" \in DOMAIN tags /\ tags["aeroway"] = "aerodrome"))

C1_Witness_RunwayOnly ==
    /\ verdict = <<FALSE>>
    /\ DOMAIN tags = {"aeroway", "name"}
    /\ tags["aeroway"] = "runway"

\* C2: after export, the node ids written as free and the node ids
\* get_nodes_in_area reports partition 0..N-1.
C2_Partition ==
    Exported =>
        \E contained \in {Range(get_nodes_in_area(BUFFER_DISTANCE))} :
            /\ Range(written_node_ids) \cup contained = NodeIds
            /\ Range(written_node_ids) \cap contained = {}

C2_Witness_BothClasses ==
    /\ Exported
    /\ Range(written_node_ids) # {}
    /\ Range(get_nodes_in_area(BUFFER_DISTANCE)) # {}

\* C3: a run given both shape flags writes the areas file of a run given the
\* minimum-rotated-rectangle flag alone.
C3_BothFlagsAsMrrOnly ==
    (Exported /\ argv.envelope /\ argv.minimum_rotated_rectangle) =>
        \E only \in {resolve_flags([argv EXCEPT !.envelope = FALSE])} :
            areas_txt = areas_lines(geoms, only.envelope, only.minimum_rotated_rectangle)

C3_Witness_EnvelopeDiffers ==
    /\ Exported
    /\ argv.envelope /\ argv.minimum_rotated_rectangle
    /\ geoms # <<>>
    /\ areas_txt # areas_lines(geoms, TRUE, FALSE)

\* C4: a geometry construction that fails skips that area only: the run goes
\* on ingesting and exporting, with the points and areas accumulated so far.
C4_FailedAreaIsSkipped ==
    geom_errors > 0 => pc \in {"ingest", "export", "exported", "done"}

\* C5 as claimed: a finished run that accumulated nothing has created all
\* three files, each empty.
C5_AllThreeFilesCreated ==
    (pc = "done" /\ coordinates = <<>> /\ geoms = <<>>) =>
        /\ created = Files
        /\ nodes_txt = <<>> /\ areas_txt = <<>> /\ centroids_txt = <<>>

\* C5 amended: a finished run that accumulated nothing has created the nodes
\* and areas files, both empty, and the centroids file, empty, exactly when
\* the centroids flag was given.
C5_EmptyRunFiles ==
    (pc = "done" /\ coordinates = <<>> /\ geoms = <<>>) =>
        /\ {"nodes", "areas"} \subseteq created
        /\ ("centroids" \in created <=> argv.centroids)
        /\ nodes_txt = <<>> /\ areas_txt = <<>> /\ centroids_txt = <<>>

C5_Witness_EmptyRunWithCentroids ==
    /\ pc = "done" /\ coordinates = <<>> /\ geoms = <<>>
    /\ argv.centroids
    /\ created = Files

\* C6: after export the nodes file holds, in insertion order, one "lat,lon"
\* line for each point inside no area's buffered minimum rotated rectangle,
\* and nothing else.
C6_NodesFileIsFreePoints ==
    Exported => \E bs \in {AreaBoxes} : nodes_txt = FreeLinesFrom(bs, 0)

C6_Witness_OneFreeOneInSeveral ==
    /\ Exported
    /\ Len(coordinates) = 2
    /\ Len(nodes_txt) = 1
    /\ \E i \in NodeIds : \E k1, k2 \in 1..Len(geoms) :
          k1 # k2 /\ InsideBuffered(AreaBox(k1), i) /\ InsideBuffered(AreaBox(k2), i)

\* C7 as claimed: each polygon of each area has one line, which lists the
\* vertices of its exported ring in ring order, each as "lon,lat;"
\* (longitude first).
C7_AreasFileLonFirst ==
    Exported =>
        /\ Len(areas_txt) = Len(AllPolygons)
        /\ \A l \in 1..Len(areas_txt) :
              areas_txt[l] = RingText(NormalizedRing(AllPolygons[l]), FALSE) \o "\n"

\* C7 amended: each polygon of each area has one line, which lists the
\* vertices of its exported ring in ring order, each as "lat,lon;" (latitude
\* first, the order of the nodes file).
C7_AreasFileLatFirst ==
    Exported =>
        /\ Len(areas_txt) = Len(AllPolygons)
        /\ \A l \in 1..Len(areas_txt) :
              areas_txt[l] = RingText(NormalizedRing(AllPolygons[l]), TRUE) \o "\n"

C7_Witness_TwoPolygonArea ==
    /\ Exported
    /\ h_minimum_rotated_rectangle
    /\ \E k \in 1..Len(geoms) : Len(geoms[k]) = 2
    /\ Len(areas_txt) = 3

\* C8: for b1 <= b2, every node id get_nodes_in_area reports with buffer b1
\* it reports with buffer b2.
C8_BufferMonotone ==
    probe # <<>> => Range(probe[3]) \subseteq Range(probe[4])

C8_Witness_StrictlyMore ==
    /\ probe # <<>>
    /\ 0 < probe[1] /\ probe[1] < probe[2]
    /\ Range(probe[3]) # {}
    /\ Range(probe[3]) # Range(probe[4])

\* C9 as claimed: a point on the boundary of an area's buffered rectangle is
\* contained, not free.
C9_BoundaryIsContained ==
    Exported =>
        \A i \in NodeIds : \A k \in 1..Len(geoms) :
            OnBufferedBoundary(AreaBox(k), i) => i \notin Range(written_node_ids)

\* C9 amended: the boundary does not count as inside.  A point on the
\* boundary of an area's buffered rectangle that lies strictly inside no
\* area's buffered rectangle is not reported by get_nodes_in_area and is
\* written as free.
C9_BoundaryIsFree ==
    Exported =>
        \E bs \in {AreaBoxes} :
            \A i \in NodeIds :
                (/\ \E k \in DOMAIN bs : OnBufferedBoundary(bs[k], i)
                 /\ \A k \in DOMAIN bs : ~InsideBuffered(bs[k], i))
                => /\ i \notin Range(get_nodes_in_area(BUFFER_DISTANCE))
                   /\ i \in Range(written_node_ids)

C9_Witness_BoundaryPointWritten ==
    /\ Exported
    /\ \E i \in NodeIds :
          /\ \E k \in 1..Len(geoms) : OnBufferedBoundary(AreaBox(k), i)
          /\ i \in Range(written_node_ids)

\* C10: while the stream is read no file exists and no partition is computed,
\* and the point and area lists only grow at the end; afterwards both lists
\* stay as they are.
C10_WholeBatch ==
    /\ [](Ingesting =>
            /\ created = {}
            /\ nodes_txt = <<>> /\ areas_txt = <<>> /\ centroids_txt = <<>>
            /\ written_node_ids = <<>>)
    /\ [][Ingesting => IsPrefix(coordinates, coordinates') /\ IsPrefix(geoms, geoms')]_vars
    /\ [][~Ingesting => UNCHANGED <<coordinates, geoms>>]_vars

C10_Witness_ExportedAfterIngest ==
    /\ pc = "done"
    /\ Len(coordinates) >= 2
    /\ Len(geoms) >= 1
    /\ created # {}

====
